---------------------------- MODULE Spec2Model ----------------------------
(***************************************************************************)
(* Model of the `pointers` crate: Cell<T> (cell.rs), a single-threaded     *)
(* interior-mutability slot, and Rc<T> (rc.rs), a non-atomically           *)
(* reference-counted pointer whose count is a Cell<usize>.                 *)
(*                                                                         *)
(* Two specifications share the variables:                                 *)
(*   Spec      single-threaded Rc::new / clone / deref / drop on a heap of *)
(*             RcInner allocations, explored while every count is below    *)
(*             MaxCount (far from the usize limit);                        *)
(*   SpecCell  Cell::new followed by set / get calls on one Cell;          *)
(*   SpecWrap  as Spec, with no limit on the counts but the width of       *)
(*             usize, in a build with or without overflow checks;          *)
(*   SpecThreads  clone and drop as the read and the write they consist   *)
(*             of, interleaved by threads that share the allocations;      *)
(*   SpecTeardown  Cell::set on a Cell whose values have a destructor, as  *)
(*             the drop of the old value and the write of the new one.     *)
(***************************************************************************)
EXTENDS Integers, Sequences, FiniteSets, TLC

VARIABLES
    heap,       \* heap[a]: the RcInner allocation a (Box<RcInner<T>>)
    handles,    \* handles[h]: the Rc value held in program variable h
    hist,       \* hist[a]: bookkeeping of what was done to allocation a
    out,        \* what the last deref returned
    build,      \* "release": c + 1 wraps; "debug": c + 1 panics on overflow;
                \* "panicked": a debug build after that panic
    pending,    \* pending[t]: the clone or drop thread t is in the middle of
    cell,       \* the stand-alone Cell<T> of SpecCell
    trace,      \* the calls made on `cell`, with what they returned
    frames,     \* the set calls on `cell` in progress, innermost last
    torn        \* torn[v]: how often the destructor of value v was run

vars == <<heap, handles, hist, out, build, pending, cell, trace, frames, torn>>

(***************************************************************************)
(* Bounds of the exploration.                                              *)
(***************************************************************************)
MaxAllocs  == 2     \* RcInner allocations ever made
MaxHandles == 3     \* program variables that can hold an Rc
MaxValue   == 1     \* the values of T are 0..MaxValue
MaxCount   == 6     \* counts explored by Spec
UsizeBits  == 3     \* width of usize in the model
MaxCalls   == 4     \* length of a call sequence on the stand-alone Cell
MaxOps     == 10    \* clones and drops per allocation explored by SpecWrap
NumThreads == 2     \* threads of SpecThreads
MaxRaceOps == 5     \* clones and drops on the allocation the threads share
MaxSets    == 4     \* set calls begun on the Cell of SpecTeardown
MaxDepth   == 3     \* set calls in progress at once in SpecTeardown

HandleIds == 1..MaxHandles
Threads   == 1..NumThreads
Values    == 0..MaxValue

RECURSIVE Pow2(_)
Pow2(n) == IF n = 0 THEN 1 ELSE 2 * Pow2(n - 1)

\* usize::MAX + 1
UsizeModulus == Pow2(UsizeBits)
Usize        == 0..(UsizeModulus - 1)

\* `c + 1` on usize without overflow checks (a release build)
usizeAdd1(c) == (c + 1) % UsizeModulus

\* `c + 1` does not fit usize
Overflows(c) == c + 1 >= UsizeModulus

\* with overflow checks (a debug build) `c + 1` panics when it does not fit
Panics(c) == build # "release" /\ Overflows(c)

\* the panic: the program stops where it is
Panic == build' = "panicked" /\ UNCHANGED <<heap, handles, hist>>

(***************************************************************************)
(* Cell<T>  (cell.rs)                                                      *)
(***************************************************************************)
\* Cell::new: wraps the value in the slot
CellNew(value) == [value |-> value]

\* Faulty variants of Cell::set: the write is lost; the write is `+=`
CellSet_Lost(self, value) == self
CellSet_Accumulate(self, value) == [self EXCEPT !.value = @ + value]

\* Cell::set: the slot is overwritten with the argument
CellSet(self, value) == [self EXCEPT !.value = value]

\* Faulty variant of Cell::get: the value is moved out, leaving the default
CellGet_Take(self) == [ret |-> self.value, self |-> [self EXCEPT !.value = 0]]

\* Cell::get: a copy of the slot; `ret` is what is returned, `self` the
\* cell afterwards
CellGet(self) == [ret |-> self.value, self |-> self]

(***************************************************************************)
(* Rc<T>  (rc.rs)                                                          *)
(***************************************************************************)
\* struct Rc: the pointer `inner`
Rc(a) == [inner |-> a]

\* RcInner { value, refcount }
RcInner(v, c) == [value |-> v, refcount |-> CellNew(c)]

\* the count Rc::new stores
InitialCount == 1

\* heap is a function on the allocations made so far; handles on the
\* program variables that hold an Rc at the moment
Allocs       == DOMAIN heap
Allocated(a) == a \in Allocs /\ heap[a].state = "allocated"
Freed(a)     == a \in Allocs /\ heap[a].state = "freed"
Live         == DOMAIN handles
LiveHandles(a) == {h \in Live : handles[h].inner = a}

\* self.inner.as_ref(): what a read through the pointer can yield. Reading
\* freed memory is undefined: any contents may be seen.
as_ref(a) ==
    IF Allocated(a)
    THEN {heap[a].inner}
    ELSE {RcInner(v, c) : v \in Values, c \in Usize}

\* inner.refcount.set(n) through the pointer; a write to freed memory
\* changes no allocation
WriteCount(a, n) ==
    IF Allocated(a)
    THEN [heap EXCEPT ![a].inner.refcount = CellSet(@, n)]
    ELSE heap

\* Faulty variant of the deallocation: the Box is never rebuilt and dropped
BoxFree_Leak(a) == heap

\* Box::from_raw(ptr) dropped at once: the value's teardown runs and the
\* allocation is returned to the allocator
BoxFree(a) == [heap EXCEPT ![a].state = "freed", ![a].frees = @ + 1]

\* Faulty variants of the test of drop: off by one; any count
IsLastRc_OffByOne(c) == c <= 2
IsLastRc_Always(c) == c >= 1
IsLastRc_Two(c) == c = 2

\* the variable that receives the next Rc made: the first unused one
\* (which unused variable is taken makes no difference to the pointers)
IsNextVar(h) == h \notin Live /\ \A x \in HandleIds \ Live : h <= x

\* the test `c == 1` of drop
IsLastRc(c) == c = 1

\* Variant of the count a non-last drop stores: the count minus one
DropCount_Decrement(c) == c - 1

\* the count a drop that is not the last one stores: `c + 1`
DropCount(c) == usizeAdd1(c)

\* Rc::new(v), its result bound to the unused variable h
RcNew(h, v) ==
    /\ build # "panicked"
    /\ IsNextVar(h)
    /\ Cardinality(Allocs) < MaxAllocs
    /\ LET a == Cardinality(Allocs) + 1 IN
        /\ heap' = heap @@ (a :> [state |-> "allocated",
                                  inner |-> RcInner(v, InitialCount),
                                  frees |-> 0])
        /\ handles' = handles @@ (h :> Rc(a))
        /\ hist' = hist @@ (a :> [value |-> v, clones |-> 0, drops |-> 0,
                                  lost |-> 0, lostInc |-> 0])
    /\ UNCHANGED <<out, build, pending, cell, trace, frames, torn>>

\* Faulty variant of clone: the incremented count is never stored
RcClone_NoStore(h, h2) ==
    /\ h \in Live
    /\ IsNextVar(h2)
    /\ heap' = heap
    /\ handles' = handles @@ (h2 :> Rc(handles[h].inner))
    /\ hist' = [hist EXCEPT ![handles[h].inner].clones = @ + 1]
    /\ UNCHANGED <<out, build, pending, cell, trace, frames, torn>>

\* handles[h].clone(), its result bound to the unused variable h2
RcClone(h, h2) ==
    /\ h \in Live
    /\ IsNextVar(h2)
    /\ build # "panicked"
    /\ LET a == handles[h].inner IN
        \E inner \in as_ref(a) :
            LET c == CellGet(inner.refcount).ret IN
            IF Panics(c)
            THEN Panic
            ELSE /\ heap' = WriteCount(a, usizeAdd1(c))
                 /\ handles' = handles @@ (h2 :> Rc(a))
                 /\ hist' = [hist EXCEPT ![a].clones = @ + 1]
                 /\ build' = build
    /\ UNCHANGED <<out, pending, cell, trace, frames, torn>>

\* *handles[h]: the value read through the pointer
RcDeref(h) ==
    /\ build # "panicked"
    /\ h \in Live
    /\ LET a == handles[h].inner IN
        \E inner \in as_ref(a) :
            out' = {[inner |-> a, value |-> inner.value]}
    /\ UNCHANGED <<heap, handles, hist, build, pending, cell, trace, frames, torn>>

\* the variable h goes out of scope: Drop::drop(&mut handles[h])
RcDrop(h) ==
    /\ h \in Live
    /\ build # "panicked"
    /\ LET a == handles[h].inner IN
        \E inner \in as_ref(a) :
            LET c == CellGet(inner.refcount).ret IN
            IF ~IsLastRc(c) /\ Panics(c)
            THEN Panic
            ELSE /\ IF IsLastRc(c)
                    THEN heap' = BoxFree(a)
                    ELSE heap' = WriteCount(a, DropCount(c))
                 /\ hist' = [hist EXCEPT ![a].drops = @ + 1]
                 /\ handles' = [x \in Live \ {h} |-> handles[x]]
                 /\ build' = build
    /\ UNCHANGED <<out, pending, cell, trace, frames, torn>>

(***************************************************************************)
(* clone and drop as two steps each: the read of the count (refcount.get)  *)
(* and what follows it (refcount.set or the deallocation), as they run     *)
(* when threads share the allocations                                      *)
(***************************************************************************)
Idle     == [op |-> "idle"]
NoneBusy == [t \in Threads |-> Idle]
Busy(op, h, c) == [op |-> op, h |-> h, c |-> c]

\* the threads in the middle of an operation on handle h
UsersOf(h) == {t \in Threads : pending[t].op # "idle" /\ pending[t].h = h}
Cloning    == {t \in Threads : pending[t].op = "clone"}

\* the store of thread t overwrites a count other than the one t read: the
\* update that was stored in between is lost
Loses(t) ==
    LET a == handles[pending[t].h].inner IN
    IF Allocated(a) /\ heap[a].inner.refcount.value # pending[t].c THEN 1 ELSE 0

\* the same, where the lost update can only be the increment of a clone:
\* no drop was made or begun yet
LosesIncrement(t) ==
    LET a == handles[pending[t].h].inner IN
    IF hist[a].drops = 0 /\ \A u \in Threads : pending[u].op # "drop"
    THEN Loses(t) ELSE 0

\* clone, `let c = inner.refcount.get()`: &self may be shared, but not
\* with a drop of the same handle
CloneRead(t, h) ==
    /\ build # "panicked"
    /\ pending[t] = Idle
    /\ h \in Live
    /\ \A u \in UsersOf(h) : pending[u].op = "clone"
    /\ Cardinality(Live) + Cardinality(Cloning) < MaxHandles
    /\ \E inner \in as_ref(handles[h].inner) :
          pending' = [pending EXCEPT
                        ![t] = Busy("clone", h, CellGet(inner.refcount).ret)]
    /\ UNCHANGED <<heap, handles, hist, out, build, cell, trace, frames, torn>>

\* clone, `inner.refcount.set(c + 1)` and the Rc returned into variable h2
CloneWrite(t, h2) ==
    /\ build # "panicked"
    /\ pending[t].op = "clone"
    /\ IsNextVar(h2)
    /\ LET a == handles[pending[t].h].inner
           c == pending[t].c
       IN  IF Panics(c)
           THEN Panic /\ pending' = pending
           ELSE /\ heap' = WriteCount(a, usizeAdd1(c))
                /\ handles' = handles @@ (h2 :> Rc(a))
                /\ hist' = [hist EXCEPT ![a].clones = @ + 1,
                                         ![a].lost = @ + Loses(t),
                                         ![a].lostInc = @ + LosesIncrement(t)]
                /\ pending' = [pending EXCEPT ![t] = Idle]
                /\ build' = build
    /\ UNCHANGED <<out, cell, trace, frames, torn>>

\* drop, `let c = inner.refcount.get()`: &mut self is exclusive
DropRead(t, h) ==
    /\ build # "panicked"
    /\ pending[t] = Idle
    /\ h \in Live
    /\ UsersOf(h) = {}
    /\ \E inner \in as_ref(handles[h].inner) :
          pending' = [pending EXCEPT
                        ![t] = Busy("drop", h, CellGet(inner.refcount).ret)]
    /\ UNCHANGED <<heap, handles, hist, out, build, cell, trace, frames, torn>>

\* drop, from `if c == 1` to the end
DropWrite(t) ==
    /\ build # "panicked"
    /\ pending[t].op = "drop"
    /\ LET h == pending[t].h
           a == handles[h].inner
           c == pending[t].c
       IN  IF ~IsLastRc(c) /\ Panics(c)
           THEN Panic /\ pending' = pending
           ELSE /\ IF IsLastRc(c)
                   THEN heap' = BoxFree(a)
                   ELSE heap' = WriteCount(a, DropCount(c))
                /\ hist' = [hist EXCEPT ![a].drops = @ + 1,
                                         ![a].lost = @ + Loses(t)]
                /\ handles' = [x \in Live \ {h} |-> handles[x]]
                /\ pending' = [pending EXCEPT ![t] = Idle]
                /\ build' = build
    /\ UNCHANGED <<out, cell, trace, frames, torn>>

(***************************************************************************)
(* Calls on the stand-alone Cell                                           *)
(***************************************************************************)
Call(op, arg, ret, after) == [op |-> op, arg |-> arg, ret |-> ret, after |-> after]

\* cell.set(value)
Set(value) ==
    /\ Len(trace) <= MaxCalls
    /\ cell' = CellSet(cell, value)
    /\ trace' = Append(trace, Call("set", {value}, {}, cell'))
    /\ UNCHANGED <<heap, handles, hist, out, build, pending, frames, torn>>

\* cell.get()
Get ==
    /\ Len(trace) <= MaxCalls
    /\ LET r == CellGet(cell) IN
        /\ cell' = r.self
        /\ trace' = Append(trace, Call("get", {}, {r.ret}, cell'))
    /\ UNCHANGED <<heap, handles, hist, out, build, pending, frames, torn>>

(***************************************************************************)
(* Cell::set on values with a destructor. `*self.value.get() = value`      *)
(* drops the old value where it lies and then writes the new one; the      *)
(* destructor is code of T and may call set on the same Cell through a     *)
(* shared handle it holds. (get needs T: Copy, and a Copy type has no      *)
(* destructor.) A value is [id, v]: v \in Values, id tells apart the        *)
(* values passed to new and set.                                           *)
(***************************************************************************)
Value(id, v) == [id |-> id, v |-> v]

\* what a set call finds in the slot: a whole value, or one whose
\* destructor has begun and that is not yet overwritten
SlotState == IF torn[cell.value.id] = 0 THEN "whole" ELSE "dropping"

\* set, the first half of the assignment: the destructor of the old value
\* is started where the value lies. Called by the program, or by the
\* destructor that the innermost set in progress is running.
SetDropOld(v) ==
    /\ Len(frames) < MaxDepth
    /\ Cardinality(DOMAIN torn) <= MaxSets
    /\ LET new == Value(Cardinality(DOMAIN torn), v) IN
        /\ frames' = Append(frames, [value |-> new, old |-> cell.value,
                                      saw |-> SlotState])
        /\ torn' = [torn EXCEPT ![cell.value.id] = @ + 1] @@ (new.id :> 0)
    /\ UNCHANGED <<heap, handles, hist, out, build, pending, cell, trace>>

\* set, the second half of the assignment: the destructor has returned
\* and the argument of the innermost set is written over the slot
SetWrite ==
    /\ frames # <<>>
    /\ cell' = CellSet(cell, frames[Len(frames)].value)
    /\ frames' = SubSeq(frames, 1, Len(frames) - 1)
    /\ UNCHANGED <<heap, handles, hist, out, build, pending, trace, torn>>

(***************************************************************************)
(* Specifications                                                          *)
(***************************************************************************)
Empty == [x \in {} |-> 0]

\* no Rc exists yet; the stand-alone Cell is not exercised. Below MaxCount
\* no `c + 1` overflows, so the two builds behave alike: one is explored.
Init ==
    /\ heap = Empty
    /\ handles = Empty
    /\ hist = Empty
    /\ out = {}
    /\ build = "release"
    /\ pending = NoneBusy
    /\ cell = CellNew(0)
    /\ trace = <<>>
    /\ frames = <<>>
    /\ torn = Empty

\* the count of h's allocation is still below the explored range's end
BelowCap(h) ==
    h \in Live /\ Allocated(handles[h].inner)
        => heap[handles[h].inner].inner.refcount.value < MaxCount

Next ==
    \/ \E h \in HandleIds, v \in Values : RcNew(h, v)
    \/ \E h \in HandleIds, h2 \in HandleIds : BelowCap(h) /\ RcClone(h, h2)
    \/ \E h \in HandleIds : RcDeref(h)
    \/ \E h \in HandleIds : BelowCap(h) /\ RcDrop(h)

Spec == Init /\ [][Next]_vars

\* the program is built with or without overflow checks
InitWrap ==
    /\ heap = Empty
    /\ handles = Empty
    /\ hist = Empty
    /\ out = {}
    /\ build \in {"release", "debug"}
    /\ pending = NoneBusy
    /\ cell = CellNew(0)
    /\ trace = <<>>
    /\ frames = <<>>
    /\ torn = Empty

\* fewer than MaxOps clones and drops were made on h's allocation
OpsBelowCap(h) ==
    h \in Live =>
        hist[handles[h].inner].clones + hist[handles[h].inner].drops < MaxOps

NextWrap ==
    \/ \E h \in HandleIds, v \in Values : RcNew(h, v)
    \/ \E h \in HandleIds, h2 \in HandleIds : OpsBelowCap(h) /\ RcClone(h, h2)
    \/ \E h \in HandleIds : RcDeref(h)
    \/ \E h \in HandleIds : OpsBelowCap(h) /\ RcDrop(h)

SpecWrap == InitWrap /\ [][NextWrap]_vars

\* fewer than MaxRaceOps clones and drops were made or begun on h's
\* allocation, and its count is below MaxCount
RaceBelowCap(h) ==
    /\ BelowCap(h)
    /\ h \in Live =>
        LET a == handles[h].inner IN
        hist[a].clones + hist[a].drops
            + Cardinality({t \in Threads : pending[t].op # "idle"}) < MaxRaceOps

\* the threads share one allocation
NextThreads ==
    \/ \E h \in HandleIds, v \in Values : Allocs = {} /\ RcNew(h, v)
    \/ \E t \in Threads, h \in HandleIds : RaceBelowCap(h) /\ CloneRead(t, h)
    \/ \E t \in Threads, h2 \in HandleIds : CloneWrite(t, h2)
    \/ \E h \in HandleIds : RcDeref(h)
    \/ \E t \in Threads, h \in HandleIds : RaceBelowCap(h) /\ DropRead(t, h)
    \/ \E t \in Threads : DropWrite(t)

SpecThreads == Init /\ [][NextThreads]_vars

\* let c = Cell::new(v0), v0 a value with a destructor
InitTeardown ==
    /\ heap = Empty
    /\ handles = Empty
    /\ hist = Empty
    /\ out = {}
    /\ build = "release"
    /\ pending = NoneBusy
    /\ trace = <<>>
    /\ frames = <<>>
    /\ torn = (0 :> 0)
    /\ \E v0 \in Values : cell = CellNew(Value(0, v0))

NextTeardown ==
    \/ \E v \in Values : SetDropOld(v)
    \/ SetWrite

SpecTeardown == InitTeardown /\ [][NextTeardown]_vars

\* let c = Cell::new(v0)
InitCell ==
    /\ heap = Empty
    /\ handles = Empty
    /\ hist = Empty
    /\ out = {}
    /\ build = "release"
    /\ pending = NoneBusy
    /\ \E v0 \in Values :
        /\ cell = CellNew(v0)
        /\ trace = <<Call("new", {v0}, {}, CellNew(v0))>>
    /\ frames = <<>>
    /\ torn = Empty

NextCell ==
    \/ \E v \in Values : Set(v)
    \/ Get

SpecCell == InitCell /\ [][NextCell]_vars

(***************************************************************************)
(* Properties of Rc                                                        *)
(***************************************************************************)
Count(a) == heap[a].inner.refcount.value
NumLive(a) == Cardinality(LiveHandles(a))

\* C1: whenever an allocation has no live handle left, it has been
\* deallocated, and its value's teardown has run exactly once.
C1_FreedWhenNoHandleLeft ==
    \A a \in Allocs : LiveHandles(a) = {} => Freed(a) /\ heap[a].frees = 1

\* C2: the stored count of every allocation that is not deallocated equals
\* the number of live handles that point to it.
C2_CountIsNumberOfHandles ==
    \A a \in Allocs : Allocated(a) => Count(a) = NumLive(a)

C4_NonLastDropDecrements ==
    [][\A h \in HandleIds :
        (h \in Live /\ Allocated(handles[h].inner)
            /\ Count(handles[h].inner) > 1 /\ RcDrop(h))
        => LET a == handles[h].inner IN
            /\ heap'[a].state = "allocated"
            /\ heap'[a].inner.value = heap[a].inner.value
            /\ heap'[a].inner.refcount.value = Count(a) - 1]_vars

C8_ValueNeverChanges ==
    /\ \A h \in Live :
        \A inner \in as_ref(handles[h].inner) :
            inner.value = hist[handles[h].inner].value
    /\ \A r \in out : r.value = hist[r.inner].value

C8_Witness ==
    \E r \in out :
        /\ r.value = 1
        /\ hist[r.inner].clones >= 1
        /\ hist[r.inner].drops >= 1
        /\ NumLive(r.inner) >= 1

(***************************************************************************)
(* Properties of Cell                                                      *)
(***************************************************************************)
Calls == 1..Len(trace)
IsStore(i) == trace[i].op \in {"new", "set"}

\* the last call before call i that stored a value (Cell::new or set)
LastStore(i) ==
    CHOOSE j \in 1..(i - 1) :
        IsStore(j) /\ \A k \in (j + 1)..(i - 1) : ~IsStore(k)

\* C7: every get returns the argument of the most recent set before it, or
\* the argument of Cell::new when no set came before it.
C7_GetReturnsLastSet ==
    \A i \in Calls :
        trace[i].op = "get" => trace[i].ret = trace[LastStore(i)].arg

C7_Witness ==
    \E i \in Calls :
        /\ i >= 4
        /\ trace[i].op = "get"
        /\ trace[i - 1].op = "set"
        /\ trace[i - 2].op = "set"
        /\ trace[i - 1].arg # trace[i - 2].arg
        /\ trace[i - 1].arg # trace[1].arg

\* C9: a get leaves the cell as it was, and gets that follow one another
\* with no set in between return the same value.
C9_GetLeavesValue ==
    \A i \in Calls :
        trace[i].op = "get" =>
            /\ trace[i].after = trace[i - 1].after
            /\ trace[i - 1].op = "get" => trace[i].ret = trace[i - 1].ret

C9_Witness ==
    \E i \in Calls :
        /\ i >= 4
        /\ trace[i].op = "get"
        /\ trace[i - 1].op = "get"
        /\ trace[i - 2].op = "get"
        /\ trace[i].ret # {0}

\* C10: set(v) directly after set(v) leaves the cell as the first set(v)
\* left it, and a get after either returns v.
C10_SetIdempotent ==
    \A i \in Calls :
        /\ (i >= 2 /\ trace[i].op = "set" /\ trace[i - 1].op = "set"
                /\ trace[i].arg = trace[i - 1].arg)
            => trace[i].after = trace[i - 1].after
        /\ (i >= 2 /\ trace[i].op = "get" /\ trace[i - 1].op = "set")
            => trace[i].ret = trace[i - 1].arg

C10_Witness ==
    \E i \in Calls :
        /\ i >= 4
        /\ trace[i].op = "get"
        /\ trace[i - 1].op = "set"
        /\ trace[i - 2].op = "set"
        /\ trace[i - 1].arg = trace[i - 2].arg
        /\ trace[i - 3].after.value \notin trace[i - 1].arg

C13_NewThenDrop ==
    [][/\ \A h \in HandleIds, v \in Values :
            RcNew(h, v) =>
                \E a \in Allocs' \ Allocs :
                    /\ Allocs' = Allocs \cup {a}
                    /\ heap'[a].state = "allocated"
                    /\ heap'[a].inner.refcount.value = 1
                    /\ heap'[a].inner.value = v
                    /\ heap'[a].frees = 0
                    /\ {x \in DOMAIN handles' : handles'[x].inner = a} = {h}
       /\ \A h \in HandleIds :
            (h \in Live /\ hist[handles[h].inner].clones = 0 /\ RcDrop(h))
            => LET a == handles[h].inner IN
                /\ Count(a) = 1
                /\ heap[a].frees = 0
                /\ heap'[a].state = "freed"
                /\ heap'[a].frees = 1
                /\ h \notin DOMAIN handles']_vars

C13_Witness ==
    \E a \in Allocs :
        /\ Freed(a)
        /\ heap[a].frees = 1
        /\ hist[a].clones = 0
        /\ hist[a].drops = 1
        /\ hist[a].value = 1

C17_CountNeverOverflows ==
    [][/\ \A h, h2 \in HandleIds :
            (h \in Live /\ Allocated(handles[h].inner)
                /\ (RcClone(h, h2)
                     \/ (RcDrop(h) /\ ~IsLastRc(Count(handles[h].inner)))))
            => ~Overflows(Count(handles[h].inner))
       /\ build' # "panicked"
       /\ \A h \in DOMAIN handles' : heap'[handles'[h].inner].state = "allocated"]_vars

(***************************************************************************)
(* Properties of clone and drop interleaved by threads                     *)
(***************************************************************************)
\* C14: a lost update leads to a premature deallocation: once racing clones
\* have lost an increment (two read the same count and both stored it plus
\* one) and nothing else was lost, by the time the handles have been dropped
\* down to one the allocation has been deallocated under that handle.
C14_LostIncrementFreesEarly ==
    \A a \in Allocs :
        (/\ hist[a].lostInc >= 1
         /\ hist[a].lost = hist[a].lostInc
         /\ pending = NoneBusy
         /\ hist[a].drops >= 1
         /\ NumLive(a) = 1)
        => Freed(a)

\* C14, the lost update: two clones read the same count and both stored it
\* plus one, so the count is below the number of live handles
C14_Witness ==
    \E a \in Allocs :
        /\ hist[a].lostInc = 1
        /\ hist[a].clones = 2
        /\ pending = NoneBusy
        /\ Allocated(a)
        /\ Count(a) = 2
        /\ NumLive(a) = 3

\* C14, what the code does instead: also with lost updates, no allocation
\* is deallocated while a handle to it is live
C14_NoPrematureFree ==
    \A h \in Live : Allocated(handles[h].inner)

(***************************************************************************)
(* Properties of Cell::set on values with a destructor                     *)
(***************************************************************************)
\* C15: the destructor of the old value runs inside the set call, and no
\* code that runs during a set (the destructor included, when it calls set
\* on the same Cell) finds the slot holding anything but a whole value: no
\* set finds a value whose destructor has begun, and no destructor runs
\* twice.
C15_SetIsOneStep ==
    /\ \A i \in 1..Len(frames) :
        /\ frames[i].saw = "whole"
        /\ torn[frames[i].old.id] >= 1
    /\ \A id \in DOMAIN torn : torn[id] <= 1

=============================================================================
